---- MODULE Spec2Model ----
(***************************************************************************)
(* go-context: cancellation/deadline propagation through context trees in  *)
(* the demo handlers (demo/handler.go, demo/middleware.go, the demo        *)
(* helpers) and in the stand-alone process handler.                        *)
(*                                                                         *)
(* One inbound request is followed from acceptance to the return of its    *)
(* handler chain, together with every goroutine it starts.  CancelHandler  *)
(* requests arrive at any time.  Requests share no state but the           *)
(* activeRequests registry, so one handled request plus any number of      *)
(* cancel requests covers what the handlers can do to each other.          *)
(*                                                                         *)
(* Time is a discrete clock, `now`, counted from the acceptance of the     *)
(* request.  Computation takes no time: the clock advances only when no    *)
(* goroutine has a step it can take, and goroutines that are ready at the  *)
(* same instant run in any order.                                          *)
(*                                                                         *)
(* context.WithCancel / WithTimeout / cancel follow the Go standard        *)
(* library: cancel sets the reason once and cancels every descendant       *)
(* under the parent's lock; a select whose cases are ready takes any one   *)
(* of them.  The server's own cancellation of the request context after    *)
(* the handler chain has returned is left out: by then every context       *)
(* derived from it has been canceled by a deferred cancel().               *)
(***************************************************************************)
EXTENDS Integers, FiniteSets, Sequences, TLC

\* ------------------------------------------------------------------ bounds
\* Largest timeout (in time units) a /process request asks for.
MaxTimeout == 7
\* The clock stops advancing here.
MaxTime == 122

\* ------------------------------------------------------- program constants
\* sleepTime := 5 * time.Second
SleepTime == 5
\* context.WithTimeout(parentCtx, 10*time.Second)
ChildTimeout == 10
\* rand.Intn(3)
TriggerSpan == 3

\* context.WithTimeout(c.Request.Context(), 2*time.Second)
LockTimeout == 2
\* time.After(2 * time.Minute), in seconds
TaskTime == 120

\* time.Duration(1+rand.Intn(3)) * time.Second
TriggerTimes == {1 + r : r \in 0..(TriggerSpan - 1)}

\* Durations time.ParseDuration can return for the timeout query parameter.
Timeouts == -1..MaxTimeout

\* X-Request-ID values
RequestIDs == {"req-1", "req-2"}

\* ------------------------------------------------------------------ routes
RtDemoProcess == "demo:/process"
RtParentCancel == "demo:/demo-parent-cancel"
RtNeverRespond == "demo:/never-respond"
RtNeverRespondTimeout == "demo:/never-respond-timeout"
RtFireAndForget == "demo:/fire-and-forget"
RtBrokenFireAndForget == "demo:/broken-fire-and-forget"
RtMainProcess == "main:/process"

\* Routes registered by demo.SetupRoutes, served behind
\* ClientCancellationMiddleware.
DemoRoutes == {RtDemoProcess, RtParentCancel, RtNeverRespond,
               RtNeverRespondTimeout, RtFireAndForget, RtBrokenFireAndForget}
\* Routes registered by the stand-alone main (no cancellation middleware).
MainRoutes == {RtMainProcess}
Routes == DemoRoutes \cup MainRoutes
\* The two main packages: the demo server and the process server.
DemoServer == "demo"
MainServer == "main"
Servers == {DemoServer, MainServer}
RoutesOf(srv) == IF srv = DemoServer THEN DemoRoutes ELSE MainRoutes
ProcessRoutes == {RtDemoProcess, RtMainProcess}

\* ---------------------------------------------------------------- contexts
Background == "Background"
ReqCtx == "c.Request.Context"
MwCtx == "middleware.ctx"
HCtx == "handler.ctx"
ParentCtx == "parentCtx"
ChildCtx == "childCtx"
\* the context handed to SafeFireAndForget (a context.WithValue node)
TaskCtx == "task.ctx"
NoCtx == "none"

Ctx == {Background, ReqCtx, MwCtx, HCtx, ParentCtx, ChildCtx, TaskCtx}

Nil == "nil"
Canceled == "context canceled"
DeadlineExceeded == "context deadline exceeded"
Reasons == {Nil, Canceled, DeadlineExceeded}

\* ---------------------------------------------------------------- responses
\* c.JSON(status, gin.H{"error": ..., "message": ...})
Resp(s, e, m) == [status |-> s, error |-> e, message |-> m]
NoResponse == Resp(0, "", "")
\* CancelHandler's c.JSON(status, gin.H{..., "requestID": requestID})
CancelResp(s, m, id) == [status |-> s, message |-> m, requestID |-> id]
NoCancelResp == CancelResp(0, "", "")

VARIABLES
    server,         \* which main is running (demo server or process server)
    now,            \* clock, time units since the request was accepted
    route,          \* route of the handled request
    requestID,      \* its request identifier
    duration,       \* parsed timeout of a /process request
    triggerTime,    \* triggerTime of DemoParentCancellation
    pc,             \* position of the goroutine serving the request
    watcher,        \* position of the middleware's watcher goroutine
    worker,         \* position of the handler's work goroutine
    canceller,      \* position of DemoParentCancellation's trigger goroutine
    wake,           \* time each goroutine's time.After / time.Sleep is due
    errVal,         \* value the worker is sending on errChan
    parent,         \* parent of each created context
    err,            \* ctx.Err() of each context (Nil: done-signal not fired)
    deadline,       \* deadline of each timer context
    timer,          \* state of each timer context's time.AfterFunc timer
    response,       \* response written for the handled request
    disconnected,   \* the client has closed the connection
    activeRequests, \* registry: request id -> context its cancel func cancels
    cancelResp,     \* last response written by CancelHandler
    raced,          \* history: the handler's select ran with both cases ready
    task            \* position of the background task (longRunningOperation)

vars == <<server, now, route, requestID, duration, triggerTime, pc, watcher,
          worker, canceller, wake, errVal, parent, err, deadline, timer, response,
          disconnected, activeRequests, cancelResp, raced, task>>

ctxVars == <<parent, err, deadline, timer>>
reqVars == <<server, route, requestID, duration, triggerTime>>

\* ------------------------------------------------------- context operations
Created(c) == c = Background \/ parent[c] # NoCtx

RECURSIVE Ancestors(_, _)
Ancestors(par, c) ==
    IF c = NoCtx \/ par[c] = NoCtx THEN {}
    ELSE {par[c]} \cup Ancestors(par, par[c])

\* c and every context derived from it, at any depth
Subtree(par, c) == {d \in Ctx : d = c \/ c \in Ancestors(par, d)}

\* cancelCtx.cancel without the walk over the children
CancelSelfOnly(e, par, c, reason) ==
    IF e[c] # Nil THEN e ELSE [e EXCEPT ![c] = reason]

\* cancelCtx.cancel that overwrites a reason already set
CancelOverwrite(e, par, c, reason) ==
    [d \in Ctx |-> IF d = c THEN reason
                   ELSE IF d \in Subtree(par, c) /\ e[d] = Nil THEN reason
                   ELSE e[d]]

\* cancelCtx.cancel(err): no-op when the reason is already set; otherwise set
\* the reason (closing Done) and cancel every child with the same reason.
Cancel(e, par, c, reason) ==
    IF e[c] # Nil THEN e
    ELSE [d \in Ctx |-> IF d \in Subtree(par, c) /\ e[d] = Nil
                        THEN reason ELSE e[d]]

\* timerCtx.cancel stops the timer of every context that is now canceled; a
\* timer that has already expired runs its function all the same.
StopTimers(t, e) ==
    [d \in Ctx |-> IF t[d] = "armed" /\ e[d] # Nil THEN "stopped" ELSE t[d]]

\* context.WithCancel not linking the child to an already canceled parent
WithCancelDetached(e, p, c) == [e EXCEPT ![c] = Nil]

\* context.WithCancel(p): the child is canceled at once when p already is.
WithCancel(e, p, c) == [e EXCEPT ![c] = e[p]]

\* context.WithValue(p, key, val): the value node has no done-signal of its
\* own, its Done() and Err() are its parent's.
WithValue(e, p, c) == [e EXCEPT ![c] = e[p]]

\* context.WithTimeout leaving a deadline that has already passed to the timer
WithTimeoutErrNoPast(e, p, d) == e[p]

\* context.WithTimeout(p, d): reason at creation. propagateCancel runs first,
\* then a deadline that has already passed cancels with DeadlineExceeded.
WithTimeoutErr(e, p, d) ==
    IF e[p] # Nil THEN e[p]
    ELSE IF d <= 0 THEN DeadlineExceeded
    ELSE Nil

\* cancel(): the CancelFunc of context c
CallCancel(c) ==
    /\ err' = Cancel(err, parent, c, Canceled)
    /\ timer' = StopTimers(timer, err')

\* ------------------------------------------------------------------- Init
Init ==
    /\ server \in Servers
    /\ now = 0
    /\ route = ""
    /\ requestID = ""
    /\ duration = 0
    /\ triggerTime = 0
    /\ pc = "idle"
    /\ watcher = "none"
    /\ worker = "none"
    /\ canceller = "none"
    /\ wake = [g \in {"worker", "canceller", "task"} |-> 0]
    /\ errVal = Nil
    /\ parent = [c \in Ctx |-> NoCtx]
    /\ err = [c \in Ctx |-> Nil]
    /\ deadline = [c \in Ctx |-> 0]
    /\ timer = [c \in Ctx |-> "none"]
    /\ response = NoResponse
    /\ disconnected = FALSE
    /\ activeRequests = [id \in {} |-> NoCtx]
    /\ cancelResp = NoCancelResp
    /\ raced = FALSE
    /\ task = "none"

\* ------------------------------------------------------- request pipeline
\* The server accepts a request: the request-id middleware stores requestID
\* and the request carries the server's per-connection context.
Request(rt, id) ==
    /\ pc = "idle"
    /\ rt \in RoutesOf(server)
    /\ route' = rt
    /\ requestID' = id
    /\ parent' = [parent EXCEPT ![ReqCtx] = Background]
    /\ pc' = "accepted"
    /\ UNCHANGED <<server, now, duration, triggerTime, watcher, worker,
                   canceller, wake, errVal, err, deadline, timer, response,
                   disconnected, activeRequests, cancelResp, raced, task>>

\* The middleware deriving ctx from context.Background() instead of the
\* request context
MiddlewareFromBackground ==
    /\ pc = "accepted"
    /\ route \in DemoRoutes
    /\ parent' = [parent EXCEPT ![MwCtx] = Background]
    /\ err' = WithCancel(err, Background, MwCtx)
    /\ watcher' = "select"
    /\ pc' = "next"
    /\ UNCHANGED <<now, reqVars, worker, canceller, wake, errVal, deadline,
                   timer, response, disconnected, activeRequests, cancelResp,
                   raced, task>>

\* ClientCancellationMiddleware up to c.Next(): derive ctx from the request
\* context, install it on the request, start the watcher goroutine.
ClientCancellationMiddleware ==
    /\ pc = "accepted"
    /\ route \in DemoRoutes
    /\ parent' = [parent EXCEPT ![MwCtx] = ReqCtx]
    /\ err' = WithCancel(err, ReqCtx, MwCtx)
    /\ watcher' = "select"
    /\ pc' = "next"
    /\ UNCHANGED <<now, reqVars, worker, canceller, wake, errVal, deadline,
                   timer, response, disconnected, activeRequests, cancelResp, raced,
                   task>>

\* The watcher goroutine: select { case <-c.Request.Context().Done(): cancel() }
\* c.Request was replaced before the goroutine started, so the context it
\* reads is the middleware's own ctx.
WatcherReady == watcher = "select" /\ err[MwCtx] # Nil
Watcher ==
    /\ WatcherReady
    /\ CallCancel(MwCtx)
    /\ watcher' = "done"
    /\ UNCHANGED <<now, reqVars, pc, worker, canceller, wake, errVal, parent,
                   deadline, response, disconnected, activeRequests,
                   cancelResp, raced, task>>

\* The middleware returning without the deferred cancel()
MiddlewareReturnNoCancel ==
    /\ pc = "returned"
    /\ pc' = "done"
    /\ UNCHANGED <<now, reqVars, watcher, worker, canceller, wake, errVal,
                   ctxVars, response, disconnected, activeRequests,
                   cancelResp, raced, task>>

\* c.Next() has returned: the middleware returns and its deferred cancel()
\* runs.
MiddlewareReturn ==
    /\ pc = "returned"
    /\ CallCancel(MwCtx)
    /\ pc' = "done"
    /\ UNCHANGED <<now, reqVars, watcher, worker, canceller, wake, errVal,
                   parent, deadline, response, disconnected, activeRequests,
                   cancelResp, raced, task>>

\* Position of the serving goroutine once a handler has returned.
AfterHandler(rt) == IF rt \in DemoRoutes THEN "returned" ELSE "done"
\* Position at which the handler of route rt is entered.
HandlerEntry(rt) == IF rt \in DemoRoutes THEN "next" ELSE "accepted"
\* c.Request.Context() as the handler of route rt sees it
RequestContext(rt) == IF rt \in DemoRoutes THEN MwCtx ELSE ReqCtx

\* ------------------------------------------------- demo.ProcessHandler
\* The ctx.Done() branch testing ctx.Err() == context.Canceled for the timeout
DoneResponseSwapped(e) ==
    IF e = Canceled
    THEN Resp(408, "timeout", "Process timed out")
    ELSE Resp(504, "canceled", "Request was canceled")

\* Response of the ctx.Done() branch of demo.ProcessHandler
DoneResponse(e) ==
    IF e = DeadlineExceeded
    THEN Resp(408, "timeout", "Process timed out")
    ELSE Resp(504, "canceled", "Request was canceled")

\* ProcessHandler from its entry to its select: parse the timeout, derive
\* ctx with context.WithTimeout, start the work goroutine.
ProcessHandler ==
    /\ route = RtDemoProcess
    /\ pc = HandlerEntry(route)
    /\ \E ok \in BOOLEAN, d \in Timeouts :
         IF ~ok
         THEN /\ d = 0
              /\ response' = Resp(400, "Invalid timeout format",
                     "Timeout should be in the format of 1s, 500ms, etc.")
              /\ pc' = AfterHandler(route)
              /\ UNCHANGED <<duration, worker, wake, ctxVars, task>>
         ELSE /\ duration' = d
              /\ parent' = [parent EXCEPT ![HCtx] = RequestContext(route)]
              /\ err' = [err EXCEPT
                           ![HCtx] = WithTimeoutErr(err, RequestContext(route), d)]
              /\ deadline' = [deadline EXCEPT ![HCtx] = now + d]
              /\ timer' = [timer EXCEPT
                             ![HCtx] = IF err'[HCtx] = Nil THEN "armed" ELSE "none"]
              /\ worker' = "select"
              /\ wake' = [wake EXCEPT !["worker"] = now + SleepTime]
              /\ pc' = "select"
              /\ UNCHANGED response
    /\ UNCHANGED <<server, now, route, requestID, triggerTime, watcher,
                   canceller,
                   errVal, disconnected, activeRequests, cancelResp, raced,
                   task>>

\* The work goroutine of demo.ProcessHandler:
\*   select { case <-ctx.Done(): return
\*            case <-time.After(sleepTime): resultChan <- ... }
WorkerDoneReady == worker = "select" /\ route = RtDemoProcess /\ err[HCtx] # Nil
WorkerAfterReady == worker = "select" /\ now >= wake["worker"]
ProcessWorker ==
    /\ route = RtDemoProcess
    /\ \/ /\ WorkerDoneReady
          /\ worker' = "done"
       \/ /\ WorkerAfterReady
          /\ worker' = "send"
    /\ UNCHANGED <<now, reqVars, pc, watcher, canceller, wake, errVal,
                   ctxVars, response, disconnected, activeRequests,
                   cancelResp, raced, task>>

\* The handler's select, its response, and the deferred cancel():
\*   case sleepTime := <-resultChan   (the worker is blocked on its send)
\*   case <-ctx.Done()
ProcessSelectResult ==
    /\ route = RtDemoProcess
    /\ pc = "select"
    /\ raced' = (worker = "send" /\ err[HCtx] # Nil)
    /\ worker = "send"
    /\ worker' = "done"
    /\ response' = Resp(200, "", "Process completed successfully")
    /\ CallCancel(HCtx)
    /\ pc' = AfterHandler(route)
    /\ UNCHANGED <<now, reqVars, watcher, canceller, wake, errVal, parent,
                   deadline, disconnected, activeRequests, cancelResp, task>>

ProcessSelectDone ==
    /\ route = RtDemoProcess
    /\ pc = "select"
    /\ raced' = (worker = "send" /\ err[HCtx] # Nil)
    /\ err[HCtx] # Nil
    /\ response' = DoneResponse(err[HCtx])
    /\ CallCancel(HCtx)
    /\ pc' = AfterHandler(route)
    /\ UNCHANGED <<now, reqVars, watcher, worker, canceller, wake, errVal,
                   parent, deadline, disconnected, activeRequests, cancelResp,
                   task>>

\* ---------------------------------------------- process.ProcessHandler
\* The ctx.Done() branch reporting the timeout for every reason but
\* DeadlineExceeded
MainDoneResponseSwapped(e) ==
    IF e # DeadlineExceeded
    THEN Resp(504, "Request timed out",
              "The operation took longer than the specified timeout")
    ELSE Resp(500, "Request cancelled", e)

\* Response of the ctx.Done() branch of process.ProcessHandler
MainDoneResponse(e) ==
    IF e = DeadlineExceeded
    THEN Resp(504, "Request timed out",
              "The operation took longer than the specified timeout")
    ELSE Resp(500, "Request cancelled", e)

MainProcessHandler ==
    /\ route = RtMainProcess
    /\ pc = HandlerEntry(route)
    /\ \E ok \in BOOLEAN, d \in Timeouts :
         IF ~ok
         THEN /\ d = 0
              /\ response' = Resp(400, "Invalid timeout format",
                     "Timeout should be in the format of 1s, 500ms, etc.")
              /\ pc' = AfterHandler(route)
              /\ UNCHANGED <<duration, worker, wake, ctxVars, task>>
         ELSE /\ duration' = d
              /\ parent' = [parent EXCEPT ![HCtx] = RequestContext(route)]
              /\ err' = [err EXCEPT
                           ![HCtx] = WithTimeoutErr(err, RequestContext(route), d)]
              /\ deadline' = [deadline EXCEPT ![HCtx] = now + d]
              /\ timer' = [timer EXCEPT
                             ![HCtx] = IF err'[HCtx] = Nil THEN "armed" ELSE "none"]
              /\ worker' = "sleep"
              /\ wake' = [wake EXCEPT !["worker"] = now + SleepTime]
              /\ pc' = "select"
              /\ UNCHANGED response
    /\ UNCHANGED <<server, now, route, requestID, triggerTime, watcher,
                   canceller,
                   errVal, disconnected, activeRequests, cancelResp, raced,
                   task>>

\* The work goroutine: time.Sleep(5 * time.Second); done <- true
MainWorkerReady == worker = "sleep" /\ now >= wake["worker"]
MainWorker ==
    /\ route = RtMainProcess
    /\ MainWorkerReady
    /\ worker' = "send"
    /\ UNCHANGED <<now, reqVars, pc, watcher, canceller, wake, errVal,
                   ctxVars, response, disconnected, activeRequests,
                   cancelResp, raced, task>>

MainSelectResult ==
    /\ route = RtMainProcess
    /\ pc = "select"
    /\ raced' = (worker = "send" /\ err[HCtx] # Nil)
    /\ worker = "send"
    /\ worker' = "done"
    /\ response' = Resp(200, "", "Processing completed successfully")
    /\ CallCancel(HCtx)
    /\ pc' = AfterHandler(route)
    /\ UNCHANGED <<now, reqVars, watcher, canceller, wake, errVal, parent,
                   deadline, disconnected, activeRequests, cancelResp, task>>

\* The ctx.Done() branch of process.ProcessHandler stopping the worker
MainSelectDoneStopsWorker ==
    /\ route = RtMainProcess
    /\ pc = "select"
    /\ raced' = (worker = "send" /\ err[HCtx] # Nil)
    /\ err[HCtx] # Nil
    /\ response' = MainDoneResponse(err[HCtx])
    /\ CallCancel(HCtx)
    /\ worker' = "done"
    /\ pc' = AfterHandler(route)
    /\ UNCHANGED <<now, reqVars, watcher, canceller, wake, errVal,
                   parent, deadline, disconnected, activeRequests, cancelResp,
                   task>>

MainSelectDone ==
    /\ route = RtMainProcess
    /\ pc = "select"
    /\ raced' = (worker = "send" /\ err[HCtx] # Nil)
    /\ err[HCtx] # Nil
    /\ response' = MainDoneResponse(err[HCtx])
    /\ CallCancel(HCtx)
    /\ pc' = AfterHandler(route)
    /\ UNCHANGED <<now, reqVars, watcher, worker, canceller, wake, errVal,
                   parent, deadline, disconnected, activeRequests, cancelResp,
                   task>>

\* ---------------------------------------------- DemoParentCancellation
\* DemoParentCancellation from its entry to its select: parentCtx from
\* context.Background(), the goroutine that cancels it after triggerTime,
\* childCtx with the 10 s timeout, the work goroutine.
DemoParentCancellation ==
    /\ route = RtParentCancel
    /\ pc = HandlerEntry(route)
    /\ \E tt \in TriggerTimes :
         /\ triggerTime' = tt
         /\ wake' = [wake EXCEPT !["canceller"] = now + tt,
                                 !["worker"] = now + SleepTime]
    /\ parent' = [parent EXCEPT ![ParentCtx] = Background,
                                ![ChildCtx] = ParentCtx]
    /\ err' = LET e1 == WithCancel(err, Background, ParentCtx)
              IN [e1 EXCEPT
                    ![ChildCtx] = WithTimeoutErr(e1, ParentCtx, ChildTimeout)]
    /\ deadline' = [deadline EXCEPT ![ChildCtx] = now + ChildTimeout]
    /\ timer' = [timer EXCEPT
                   ![ChildCtx] = IF err'[ChildCtx] = Nil THEN "armed" ELSE "none"]
    /\ canceller' = "sleep"
    /\ worker' = "select"
    /\ pc' = "select"
    /\ UNCHANGED <<server, now, route, requestID, duration, watcher, errVal,
                   response,
                   disconnected, activeRequests, cancelResp, raced, task>>

\* The trigger goroutine returning without calling parentCancel()
ParentCancellerForgetsCancel ==
    /\ canceller = "sleep" /\ now >= wake["canceller"]
    /\ canceller' = "done"
    /\ UNCHANGED <<now, reqVars, pc, watcher, worker, wake, errVal, ctxVars,
                   response, disconnected, activeRequests, cancelResp, raced,
                   task>>

\* go func() { time.Sleep(triggerTime); parentCancel() }()
ParentCancellerReady == canceller = "sleep" /\ now >= wake["canceller"]
ParentCanceller ==
    /\ ParentCancellerReady
    /\ CallCancel(ParentCtx)
    /\ canceller' = "done"
    /\ UNCHANGED <<now, reqVars, pc, watcher, worker, wake, errVal, parent,
                   deadline, response, disconnected, activeRequests,
                   cancelResp, raced, task>>

\* The work goroutine of DemoParentCancellation:
\*   select { case <-childCtx.Done(): errChan <- childCtx.Err()
\*            case <-time.After(sleepTime): resultChan <- ... }
ParentWorkerDoneReady ==
    worker = "select" /\ route = RtParentCancel /\ err[ChildCtx] # Nil
ParentWorker ==
    /\ route = RtParentCancel
    /\ \/ /\ ParentWorkerDoneReady
          /\ worker' = "sendErr"
          /\ errVal' = err[ChildCtx]
       \/ /\ WorkerAfterReady
          /\ worker' = "send"
          /\ UNCHANGED errVal
    /\ UNCHANGED <<now, reqVars, pc, watcher, canceller, wake, ctxVars,
                   response, disconnected, activeRequests, cancelResp, raced,
                   task>>

\* Response of the errChan branch
ParentErrResponse(e) ==
    Resp(500, e, IF e = Canceled
                 THEN "Process was canceled by parent context"
                 ELSE "Process failed")

\* The handler's select and the deferred childCancel():
\*   case sleepTime := <-resultChan
\*   case err := <-errChan
ParentSelect ==
    /\ route = RtParentCancel
    /\ pc = "select"
    /\ worker \in {"send", "sendErr"}
    /\ worker' = "done"
    /\ response' = IF worker = "send"
                   THEN Resp(200, "", "Process completed successfully")
                   ELSE ParentErrResponse(errVal)
    /\ CallCancel(ChildCtx)
    /\ pc' = AfterHandler(route)
    /\ UNCHANGED <<now, reqVars, watcher, canceller, wake, errVal, parent,
                   deadline, disconnected, activeRequests, cancelResp, raced,
                   task>>

\* ------------------------------------------------ never-respond handlers
\* NeverRespondWithGoContextHandler passing the request context
LockCtxRequest(rt) == IF rt = RtNeverRespond THEN RequestContext(rt) ELSE HCtx

\* The context each handler passes to LockResponse.
LockCtx(rt) == IF rt = RtNeverRespond THEN Background ELSE HCtx

\* NeverRespondWithGoContextHandler up to the block in LockResponse:
\* LockResponse(context.Background()) prints and then waits, in its deferred
\* onlyReturnWhenContextCancelled, for the context's done-signal.
NeverRespondWithGoContextHandler ==
    /\ route = RtNeverRespond
    /\ pc = HandlerEntry(route)
    /\ pc' = "lock"
    /\ UNCHANGED <<now, reqVars, watcher, worker, canceller, wake, errVal,
                   ctxVars, response, disconnected, activeRequests,
                   cancelResp, raced, task>>

\* NeverRespondWithTimeoutContextHandler with a context that has no deadline
NeverRespondWithoutTimeout ==
    /\ route = RtNeverRespondTimeout
    /\ pc = HandlerEntry(route)
    /\ parent' = [parent EXCEPT ![HCtx] = RequestContext(route)]
    /\ err' = WithCancel(err, RequestContext(route), HCtx)
    /\ pc' = "lock"
    /\ UNCHANGED <<now, reqVars, watcher, worker, canceller, wake, errVal,
                   deadline, timer, response, disconnected, activeRequests,
                   cancelResp, raced, task>>

\* NeverRespondWithTimeoutContextHandler up to the block in LockResponse:
\* ctx from context.WithTimeout(c.Request.Context(), 2*time.Second).
NeverRespondWithTimeoutContextHandler ==
    /\ route = RtNeverRespondTimeout
    /\ pc = HandlerEntry(route)
    /\ parent' = [parent EXCEPT ![HCtx] = RequestContext(route)]
    /\ err' = [err EXCEPT
                 ![HCtx] = WithTimeoutErr(err, RequestContext(route),
                                          LockTimeout)]
    /\ deadline' = [deadline EXCEPT ![HCtx] = now + LockTimeout]
    /\ timer' = [timer EXCEPT
                   ![HCtx] = IF err'[HCtx] = Nil THEN "armed" ELSE "none"]
    /\ pc' = "lock"
    /\ UNCHANGED <<now, reqVars, watcher, worker, canceller, wake, errVal,
                   response, disconnected, activeRequests, cancelResp, raced,
                   task>>

\* onlyReturnWhenContextCancelled returns (select { case <-ctx.Done() }),
\* LockResponse returns, the handler writes its response and returns; the
\* timeout handler's deferred cancel() runs.
LockReady == pc = "lock" /\ err[LockCtx(route)] # Nil
LockResponse ==
    /\ LockReady
    /\ response' = Resp(200, "", "Process completed successfully")
    /\ IF route = RtNeverRespondTimeout
       THEN CallCancel(HCtx)
       ELSE UNCHANGED <<err, timer>>
    /\ pc' = AfterHandler(route)
    /\ UNCHANGED <<now, reqVars, watcher, worker, canceller, wake, errVal,
                   parent, deadline, disconnected, activeRequests, cancelResp,
                   raced, task>>

\* ------------------------------------------------------ fire-and-forget
\* FireAndForgetHandler deriving the task's context from the request context
FireAndForgetFromRequest ==
    /\ route = RtFireAndForget
    /\ pc = HandlerEntry(route)
    /\ parent' = [parent EXCEPT ![TaskCtx] = RequestContext(route)]
    /\ err' = WithValue(err, RequestContext(route), TaskCtx)
    /\ task' = "start"
    /\ response' = Resp(200, "", "Process completed successfully")
    /\ pc' = AfterHandler(route)
    /\ UNCHANGED <<now, reqVars, watcher, worker, canceller, wake, errVal,
                   deadline, timer, disconnected, activeRequests, cancelResp,
                   raced>>

\* FireAndForgetHandler: ctx := context.WithValue(context.Background(), ...),
\* SafeFireAndForget(ctx) starts longRunningOperation, the handler responds.
FireAndForgetHandler ==
    /\ route = RtFireAndForget
    /\ pc = HandlerEntry(route)
    /\ parent' = [parent EXCEPT ![TaskCtx] = Background]
    /\ err' = WithValue(err, Background, TaskCtx)
    /\ task' = "start"
    /\ response' = Resp(200, "", "Process completed successfully")
    /\ pc' = AfterHandler(route)
    /\ UNCHANGED <<now, reqVars, watcher, worker, canceller, wake, errVal,
                   deadline, timer, disconnected, activeRequests, cancelResp,
                   raced>>

\* BrokenFireAndForgetHandler up to its response: ctx, cancel :=
\* context.WithCancel(c.Request.Context()); ctx = context.WithValue(ctx, ...);
\* defer cancel(); SafeFireAndForget(ctx) starts longRunningOperation.
BrokenFireAndForgetHandler ==
    /\ route = RtBrokenFireAndForget
    /\ pc = HandlerEntry(route)
    /\ parent' = [parent EXCEPT ![HCtx] = RequestContext(route),
                                ![TaskCtx] = HCtx]
    /\ err' = WithValue(WithCancel(err, RequestContext(route), HCtx),
                        HCtx, TaskCtx)
    /\ task' = "start"
    /\ pc' = "spawned"
    /\ UNCHANGED <<now, reqVars, watcher, worker, canceller, wake, errVal,
                   deadline, timer, response, disconnected, activeRequests,
                   cancelResp, raced>>

\* BrokenFireAndForgetHandler returning without its deferred cancel()
BrokenFireAndForgetReturnNoCancel ==
    /\ route = RtBrokenFireAndForget
    /\ pc = "spawned"
    /\ response' = Resp(200, "", "Process completed successfully")
    /\ pc' = AfterHandler(route)
    /\ UNCHANGED <<now, reqVars, watcher, worker, canceller, wake, errVal,
                   ctxVars, disconnected, activeRequests, cancelResp, raced,
                   task>>

\* BrokenFireAndForgetHandler writes its response and returns, which runs
\* the deferred cancel().
BrokenFireAndForgetReturn ==
    /\ route = RtBrokenFireAndForget
    /\ pc = "spawned"
    /\ response' = Resp(200, "", "Process completed successfully")
    /\ CallCancel(HCtx)
    /\ pc' = AfterHandler(route)
    /\ UNCHANGED <<now, reqVars, watcher, worker, canceller, wake, errVal,
                   parent, deadline, disconnected, activeRequests, cancelResp,
                   raced, task>>

\* longRunningOperation up to its select: rand.Intn(10) < 2 fails the
\* operation at once, otherwise it starts waiting.
TaskStart ==
    /\ task = "start"
    /\ \E failed \in BOOLEAN :
         task' = IF failed THEN "Failed" ELSE "select"
    /\ wake' = [wake EXCEPT !["task"] = now + TaskTime]
    /\ UNCHANGED <<now, reqVars, pc, watcher, worker, canceller, errVal,
                   ctxVars, response, disconnected, activeRequests,
                   cancelResp, raced>>

\* longRunningOperation's select:
\*   case <-ctx.Done():                 "Operation canceled"
\*   case <-time.After(2 * time.Minute): "Operation completed"
TaskDoneReady == task = "select" /\ err[TaskCtx] # Nil
TaskAfterReady == task = "select" /\ now >= wake["task"]
\* longRunningOperation waiting on ctx.Done() alone
TaskSelectOnlyDone ==
    /\ TaskDoneReady
    /\ task' = "CanceledVoluntarily"
    /\ UNCHANGED <<now, reqVars, pc, watcher, worker, canceller, wake, errVal,
                   ctxVars, response, disconnected, activeRequests,
                   cancelResp, raced>>

TaskSelect ==
    /\ \/ /\ TaskDoneReady
          /\ task' = "CanceledVoluntarily"
       \/ /\ TaskAfterReady
          /\ task' = "Completed"
    /\ UNCHANGED <<now, reqVars, pc, watcher, worker, canceller, wake, errVal,
                   ctxVars, response, disconnected, activeRequests,
                   cancelResp, raced>>

\* Terminal states of the background task
TaskTerminal == {"Completed", "CanceledVoluntarily", "Failed"}

\* ------------------------------------------------------------------ timers
\* The time.AfterFunc timer of a WithTimeout context reaches its deadline.
TimerExpireReady(c) == timer[c] = "armed" /\ now >= deadline[c]
TimerExpire(c) ==
    /\ TimerExpireReady(c)
    /\ timer' = [timer EXCEPT ![c] = "expired"]
    /\ UNCHANGED <<now, reqVars, pc, watcher, worker, canceller, wake, errVal,
                   parent, err, deadline, response, disconnected,
                   activeRequests, cancelResp, raced, task>>

\* The timer's function runs: c.cancel(true, DeadlineExceeded)
TimerFunc(c) ==
    /\ timer[c] = "expired"
    /\ err' = Cancel(err, parent, c, DeadlineExceeded)
    /\ timer' = StopTimers([timer EXCEPT ![c] = "ran"], err')
    /\ UNCHANGED <<now, reqVars, pc, watcher, worker, canceller, wake, errVal,
                   parent, deadline, response, disconnected, activeRequests,
                   cancelResp, raced, task>>

\* ------------------------------------------------------------- environment
\* The client closes the connection: the server cancels the request context.
ClientDisconnect ==
    /\ pc # "idle"
    /\ ~disconnected
    /\ disconnected' = TRUE
    /\ CallCancel(ReqCtx)
    /\ UNCHANGED <<now, reqVars, pc, watcher, worker, canceller, wake, errVal,
                   parent, deadline, response, activeRequests, cancelResp, raced,
                   task>>

\* CancelHandler canceling the request being handled when the lookup fails
CancelHandlerCancelsOnMiss(id) ==
    /\ server = DemoServer
    /\ IF id \in DOMAIN activeRequests
       THEN /\ CallCancel(activeRequests[id])
            /\ cancelResp' = CancelResp(200, "Request canceled", id)
       ELSE /\ cancelResp' = CancelResp(404, "Request not found", id)
            /\ CallCancel(ReqCtx)
    /\ UNCHANGED <<now, reqVars, pc, watcher, worker, canceller, wake, errVal,
                   parent, deadline, response, disconnected, activeRequests,
                   raced, task>>

\* CancelHandler for GET /cancel/:requestID
CancelHandler(id) ==
    /\ server = DemoServer
    /\ IF id \in DOMAIN activeRequests
       THEN /\ CallCancel(activeRequests[id])
            /\ cancelResp' = CancelResp(200, "Request canceled", id)
       ELSE /\ cancelResp' = CancelResp(404, "Request not found", id)
            /\ UNCHANGED <<err, timer, task>>
    /\ UNCHANGED <<now, reqVars, pc, watcher, worker, canceller, wake, errVal,
                   parent, deadline, response, disconnected, activeRequests,
                   raced, task>>

\* -------------------------------------------------------------------- time
\* Some goroutine or timer function can take a step now.
Urgent ==
    \/ pc \in {"accepted", "next", "spawned", "returned"}
    \/ pc = "select" /\ worker \in {"send", "sendErr"}
    \/ pc = "select" /\ route \in ProcessRoutes /\ err[HCtx] # Nil
    \/ WatcherReady
    \/ WorkerDoneReady
    \/ ParentWorkerDoneReady
    \/ worker = "select" /\ WorkerAfterReady
    \/ MainWorkerReady
    \/ ParentCancellerReady
    \/ LockReady
    \/ task = "start"
    \/ TaskDoneReady
    \/ TaskAfterReady
    \/ \E c \in Ctx : TimerExpireReady(c) \/ timer[c] = "expired"

Tick ==
    /\ pc # "idle"
    /\ now < MaxTime
    /\ ~Urgent
    /\ now' = now + 1
    /\ UNCHANGED <<reqVars, pc, watcher, worker, canceller, wake, errVal,
                   ctxVars, response, disconnected, activeRequests,
                   cancelResp, raced, task>>

\* -------------------------------------------------------------------- spec
Next ==
    \/ \E rt \in Routes, id \in RequestIDs : Request(rt, id)
    \/ ClientCancellationMiddleware
    \/ Watcher
    \/ MiddlewareReturn
    \/ ProcessHandler
    \/ ProcessWorker
    \/ ProcessSelectResult
    \/ ProcessSelectDone
    \/ MainProcessHandler
    \/ MainWorker
    \/ MainSelectResult
    \/ MainSelectDone
    \/ DemoParentCancellation
    \/ ParentCanceller
    \/ ParentWorker
    \/ ParentSelect
    \/ NeverRespondWithGoContextHandler
    \/ NeverRespondWithTimeoutContextHandler
    \/ LockResponse
    \/ FireAndForgetHandler
    \/ BrokenFireAndForgetHandler
    \/ BrokenFireAndForgetReturn
    \/ TaskStart
    \/ TaskSelect
    \/ \E c \in Ctx : TimerExpire(c)
    \/ \E c \in Ctx : TimerFunc(c)
    \/ ClientDisconnect
    \/ \E id \in RequestIDs : CancelHandler(id)
    \/ Tick

Spec == Init /\ [][Next]_vars

\* Every runnable goroutine is eventually scheduled, every due timer
\* eventually fires and time passes.  The client and the callers of
\* /cancel are under no obligation.
Fairness ==
    /\ WF_vars(ClientCancellationMiddleware)
    /\ WF_vars(Watcher)
    /\ WF_vars(MiddlewareReturn)
    /\ WF_vars(ProcessHandler)
    /\ WF_vars(ProcessWorker)
    /\ WF_vars(ProcessSelectResult)
    /\ WF_vars(ProcessSelectDone)
    /\ WF_vars(MainProcessHandler)
    /\ WF_vars(MainWorker)
    /\ WF_vars(MainSelectResult)
    /\ WF_vars(MainSelectDone)
    /\ WF_vars(DemoParentCancellation)
    /\ WF_vars(ParentCanceller)
    /\ WF_vars(ParentWorker)
    /\ WF_vars(ParentSelect)
    /\ WF_vars(NeverRespondWithGoContextHandler)
    /\ WF_vars(NeverRespondWithTimeoutContextHandler)
    /\ WF_vars(LockResponse)
    /\ WF_vars(FireAndForgetHandler)
    /\ WF_vars(BrokenFireAndForgetHandler)
    /\ WF_vars(BrokenFireAndForgetReturn)
    /\ WF_vars(TaskStart)
    /\ WF_vars(TaskSelect)
    /\ WF_vars(\E c \in Ctx : TimerExpire(c))
    /\ WF_vars(\E c \in Ctx : TimerFunc(c))
    /\ WF_vars(Tick)

FairSpec == Spec /\ Fairness

\* ================================================================= claims

\* C1: parent-to-child propagation.  For every context c and every context d
\* derived from c at any depth: in every state where c's done-signal has
\* fired, d's has fired too, and d's reason is Canceled unless d's reason was
\* already set before (d was canceled or timed out on its own first).
C1_ParentToChild ==
    [][\A d \in Ctx : \A c \in Ancestors(parent', d) :
          err'[c] # Nil =>
              /\ err'[d] # Nil
              /\ (err[d] = Nil => err'[d] = Canceled)]_vars

\* parentCtx was canceled while the handler waits, and childCtx (deadline not
\* reached, its timer stopped by the propagation) is Canceled.
C1_Witness ==
    /\ route = RtParentCancel
    /\ pc = "select"
    /\ err[ParentCtx] = Canceled
    /\ err[ChildCtx] = Canceled
    /\ timer[ChildCtx] = "stopped"

\* C2: exactly-once termination.  Under every interleaving of cancel calls,
\* deadline timers and parent cancellation, a reason once set never changes:
\* the done-signal fires at most once.
C2_ExactlyOnce ==
    [][\A c \in Ctx : err[c] # Nil => err'[c] = err[c]]_vars

\* demo.ProcessHandler has returned after the deadline fired: its deferred
\* cancel(), the middleware's deferred cancel() and the watcher's cancel() have
\* all run, and the reason is still DeadlineExceeded.
C2_Witness ==
    /\ route = RtDemoProcess
    /\ pc = "done"
    /\ watcher = "done"
    /\ timer[HCtx] = "ran"
    /\ err[HCtx] = DeadlineExceeded
    /\ err[MwCtx] = Canceled

\* C3: timeout race of ProcessHandler (both packages), work taking SleepTime,
\* client still connected: with a timeout above SleepTime the only response
\* is success, written by the time the clock passes SleepTime; with a timeout
\* below SleepTime the only response is the timeout response, the reason is
\* DeadlineExceeded, and it is written by the time the clock passes the
\* timeout (before the clock moves at all when the timeout is zero or
\* negative).
C3_TimeoutRace ==
    (route \in ProcessRoutes /\ Created(HCtx) /\ ~disconnected) =>
        /\ duration > SleepTime =>
             /\ response.status \in {0, 200}
             /\ now > SleepTime => response.status = 200
        /\ duration < SleepTime =>
             /\ \/ response = NoResponse
                \/ /\ err[HCtx] = DeadlineExceeded
                   /\ response.status = IF route = RtDemoProcess THEN 408 ELSE 504
                   /\ response.error = IF route = RtDemoProcess
                                        THEN "timeout" ELSE "Request timed out"
             /\ (now > duration /\ now > 0) => response # NoResponse

\* A request with a timeout below SleepTime has been answered with the
\* timeout response while the client is still connected.
C3_Witness ==
    /\ route = RtDemoProcess
    /\ duration > 0 /\ duration < SleepTime
    /\ ~disconnected
    /\ response.status = 408
    /\ pc = "done"

\* C4: DemoParentCancellation never reports success: the parent is canceled
\* at triggerTime (1..3), before the work's SleepTime and the child's
\* deadline, so the only response is the error branch with the child's
\* reason Canceled, written by the time the clock passes triggerTime.
C4_NeverSuccess ==
    (route = RtParentCancel /\ Created(ChildCtx)) =>
        /\ \/ response = NoResponse
           \/ /\ response.status = 500
              /\ response.error = Canceled
              /\ response.message = "Process was canceled by parent context"
        /\ now > triggerTime => response # NoResponse

\* The handler has reported the parent's cancellation.
C4_Witness ==
    /\ route = RtParentCancel
    /\ triggerTime \in TriggerTimes
    /\ now = triggerTime
    /\ response.status = 500
    /\ response.error = Canceled
    /\ canceller = "done"
    /\ worker = "done"

\* The handler of a /process request leaves its select in this step.
SelectStep == route \in ProcessRoutes /\ pc = "select" /\ pc' # "select"
\* Both cases of the handler's select are ready: the worker is blocked on its
\* send to the result channel and ctx.Done() is closed.
BothReady == worker = "send" /\ err[HCtx] # Nil

\* C5 as stated: whenever the result and ctx.Done() are both ready when the
\* handler's select takes a branch, the handler reports success.
C5_CompletionWins ==
    [][(SelectStep /\ BothReady) => response'.status = 200]_vars

\* C5 amended: when both are ready the select takes either branch: the
\* handler reports success, or the response of the context's reason (timeout
\* for DeadlineExceeded, canceled otherwise); nothing else.
C5_EitherBranch ==
    [][(SelectStep /\ BothReady) =>
          \/ response'.status = 200 /\ response'.error = ""
          \/ /\ err[HCtx] = DeadlineExceeded
             /\ response'.status = IF route = RtDemoProcess THEN 408 ELSE 504
             /\ response'.error = IF route = RtDemoProcess
                                   THEN "timeout" ELSE "Request timed out"
          \/ /\ err[HCtx] = Canceled
             /\ response'.status = IF route = RtDemoProcess THEN 504 ELSE 500
             /\ response'.error = IF route = RtDemoProcess
                                   THEN "canceled" ELSE "Request cancelled"]_vars

\* The select ran with both cases ready and took the ctx.Done() branch: the
\* timeout was reported although the work's result was ready.
C5_Witness ==
    /\ raced
    /\ route = RtDemoProcess
    /\ response.status = 408
    /\ worker = "send"

\* C6 as stated: whenever ctx.Done() has fired before the handler's select
\* takes a branch, the handler reports the context's reason, never success.
C6_ContextWins ==
    [][(SelectStep /\ err[HCtx] # Nil) => response'.status # 200]_vars

\* C6 amended: whenever ctx.Done() has fired and no result is ready on the
\* result channel when the handler's select takes a branch, the handler
\* reports the context's reason, and the response stays as written when the
\* work completes afterwards.
C6_ContextWinsUnlessResultReady ==
    [][/\ (SelectStep /\ err[HCtx] # Nil /\ worker # "send") =>
             /\ response'.status =
                    IF route = RtDemoProcess
                    THEN (IF err[HCtx] = DeadlineExceeded THEN 408 ELSE 504)
                    ELSE (IF err[HCtx] = DeadlineExceeded THEN 504 ELSE 500)
             /\ response'.error =
                    IF route = RtDemoProcess
                    THEN (IF err[HCtx] = DeadlineExceeded
                          THEN "timeout" ELSE "canceled")
                    ELSE (IF err[HCtx] = DeadlineExceeded
                          THEN "Request timed out" ELSE "Request cancelled")
       /\ response # NoResponse => response' = response]_vars

\* process.ProcessHandler reported the timeout with only ctx.Done() ready, and
\* the worker finished its sleep afterwards (it is blocked on its send).
C6_Witness ==
    /\ route = RtMainProcess
    /\ ~raced
    /\ response.status = 504
    /\ pc = "done"
    /\ worker = "send"

C8_WatcherTerminates ==
    (pc \in {"returned", "done"} /\ route \in DemoRoutes) ~> (watcher = "done")

\* The request completed, the client never disconnected, and the watcher is
\* gone.
C8_Witness ==
    /\ route \in DemoRoutes
    /\ pc = "done"
    /\ ~disconnected
    /\ watcher = "done"

\* C9 as stated: CancelHandler called with the identifier of the /process
\* request in flight cancels that request's context and reports
\* "Request canceled".
C9_CancelById ==
    [][(cancelResp' # cancelResp /\ cancelResp'.requestID = requestID
            /\ route = RtDemoProcess /\ pc = "select") =>
          /\ cancelResp'.status = 200
          /\ cancelResp'.message = "Request canceled"
          /\ err'[HCtx] # Nil]_vars

\* C10: CancelHandler called with an identifier that has no entry in
\* activeRequests reports 404 "Request not found" and changes neither the
\* registry nor the reason, done-signal or timer of any context.
C10_UnknownIdNoEffect ==
    [][(cancelResp' # cancelResp
            /\ cancelResp'.requestID \notin DOMAIN activeRequests) =>
          /\ cancelResp'.status = 404
          /\ cancelResp'.message = "Request not found"
          /\ activeRequests' = activeRequests
          /\ err' = err
          /\ timer' = timer
          /\ parent' = parent]_vars

\* CancelHandler answered 404 for an identifier other than that of the
\* request in flight, whose contexts are still live.
C10_Witness ==
    /\ cancelResp.status = 404
    /\ cancelResp.requestID \in RequestIDs \ {requestID}
    /\ route = RtDemoProcess
    /\ pc = "select"
    /\ err[HCtx] = Nil
    /\ err[MwCtx] = Nil

\* C11 as stated: the activeRequests registry holds an entry keyed by a
\* request's identifier exactly while that request is in flight in
\* ProcessHandler (inserted at its start, removed on every exit path).
C11_RegistryLifecycle ==
    LET inFlight == route = RtDemoProcess /\ pc = "select"
    IN DOMAIN activeRequests = IF inFlight THEN {requestID} ELSE {}

\* C12: the context FireAndForgetHandler passes to the background task never
\* fires, whatever happens to the request (handler return, deferred
\* middleware cancel, client disconnect); the task never ends in the
\* canceled branch, and the handler has responded with success as soon as
\* the task exists, without waiting for it.
C12_SafeTaskIndependent ==
    route = RtFireAndForget =>
        /\ err[TaskCtx] = Nil
        /\ task # "CanceledVoluntarily"
        /\ task # "none" =>
             /\ parent[TaskCtx] = Background
             /\ response = Resp(200, "", "Process completed successfully")

\* The client disconnected and the middleware's deferred cancel ran, and the
\* task of FireAndForgetHandler still ran its two minutes and completed.
C12_Witness ==
    /\ route = RtFireAndForget
    /\ disconnected
    /\ err[ReqCtx] = Canceled
    /\ err[MwCtx] = Canceled
    /\ pc = "done"
    /\ task = "Completed"

\* C13: in BrokenFireAndForgetHandler the task's context is fired with reason
\* Canceled in every state after the handler has returned, and the background
\* task, whose own delay is 2 minutes, ends as canceled or failed and never
\* reaches Completed.
C13_BrokenTaskCanceled ==
    /\ [](route = RtBrokenFireAndForget /\ pc \in {"returned", "done"} =>
            err[TaskCtx] = Canceled)
    /\ [](route = RtBrokenFireAndForget => task # "Completed")
    /\ (route = RtBrokenFireAndForget /\ task = "start") ~>
            task \in {"CanceledVoluntarily", "Failed"}

\* The client stayed connected, the handler returned, and the task it
\* started ended in the canceled branch.
C13_Witness ==
    /\ route = RtBrokenFireAndForget
    /\ ~disconnected
    /\ pc = "done"
    /\ err[TaskCtx] = Canceled
    /\ task = "CanceledVoluntarily"

\* Context c, already created, fires in this step (by cancel, deadline or
\* parent).
Fires(c) == Created(c) /\ err[c] = Nil /\ err'[c] # Nil

\* C14: a step that fires a context changes the control state of no
\* goroutine that is sleeping or waiting (worker, background task, watcher);
\* in process.ProcessHandler, when the handler takes the ctx.Done() branch
\* and reports timeout or canceled, the worker, which ignores the context,
\* is left as it was, and its sleep ends only when its 5 units have passed.
C14_CooperativeOnly ==
    [][/\ (\E c \in Ctx : Fires(c)) =>
            /\ worker \in {"sleep", "select"} => worker' = worker
            /\ task' = task
            /\ watcher' = watcher
       /\ (route = RtMainProcess /\ pc = "select" /\ pc' # pc
                /\ response'.status # 200) =>
            /\ response' = MainDoneResponse(err[HCtx])
            /\ worker' = worker
       /\ (route = RtMainProcess /\ worker = "sleep" /\ worker' # worker) =>
            /\ now >= wake["worker"]
            /\ worker' = "send"]_vars

\* process.ProcessHandler reported the timeout and returned while the worker
\* is still in its sleep.
C14_Witness ==
    /\ route = RtMainProcess
    /\ pc = "done"
    /\ err[HCtx] = DeadlineExceeded
    /\ response = MainDoneResponse(DeadlineExceeded)
    /\ worker = "sleep"
    /\ now < wake["worker"]

\* ProcessHandler of the demo server was given a zero or negative timeout and
\* has derived its context.
PastDeadline == route = RtDemoProcess /\ Created(HCtx) /\ duration <= 0

\* C15 as stated: a context created by ProcessHandler with a zero or negative
\* timeout is fired at once with reason DeadlineExceeded, and the request is
\* answered with the timeout response, never with success.
C15_PastDeadlineExceeded ==
    PastDeadline =>
        /\ err[HCtx] = DeadlineExceeded
        /\ response \in {NoResponse, Resp(408, "timeout", "Process timed out")}

\* C15: a context created by ProcessHandler with a zero or negative timeout
\* is fired from its creation on, with reason DeadlineExceeded when the
\* request context was live at that moment and with the request context's
\* reason Canceled when it was not; the request is answered with the timeout
\* response in the first case and the canceled response in the second, never
\* with success.
C15_PastDeadlineFired ==
    /\ [](PastDeadline =>
            /\ err[HCtx] \in {DeadlineExceeded, Canceled}
            /\ err[HCtx] = Canceled => err[RequestContext(route)] = Canceled
            /\ response \in {NoResponse, DoneResponse(err[HCtx])}
            /\ response.status # 200)
    /\ [][(~PastDeadline /\ PastDeadline') =>
            err'[HCtx] = IF err[RequestContext(route)] = Nil
                         THEN DeadlineExceeded ELSE Canceled]_vars

\* A request with a negative timeout on a live connection was answered with
\* the timeout response.
C15_Witness ==
    /\ PastDeadline
    /\ duration < 0
    /\ ~disconnected
    /\ err[HCtx] = DeadlineExceeded
    /\ response = Resp(408, "timeout", "Process timed out")

\* C16 as stated: the done-signal of a derived context (the handler timeout
\* context of ProcessHandler, childCtx of DemoParentCancellation) never fires
\* before its parent's: whenever it has fired, its parent's has fired.
C16_ChildNeverBeforeParent ==
    \A c \in {HCtx, ChildCtx} :
        (route \in {RtDemoProcess, RtParentCancel} /\ Created(c)
            /\ err[c] # Nil) => err[parent[c]] # Nil

\* C16: the done-signal of a derived context never fires after its parent's:
\* in every state where the parent's has fired the child's has fired too
\* (earlier or in the same step); the child's may fire while the parent is
\* still live, by its own deadline or its own cancel call.
C16_ChildNotAfterParent ==
    \A c \in Ctx \ {Background} :
        (Created(c) /\ err[parent[c]] # Nil) => err[c] # Nil

\* The handler timeout context of ProcessHandler fired by its own deadline;
\* its parent, the request context, was canceled only later, by the
\* middleware's deferred cancel.
C16_Witness ==
    /\ route = RtDemoProcess
    /\ pc = "done"
    /\ ~disconnected
    /\ err[HCtx] = DeadlineExceeded
    /\ err[parent[HCtx]] = Canceled

\* C17 as stated: in demo.ProcessHandler the worker is never left blocked on
\* its send to the unbuffered result channel once the handler has returned
\* (after which nothing receives from the channel), ties between the timeout
\* or a cancellation and the work's 5-unit timer included.
C17_NoLeakedWorker ==
    (route = RtDemoProcess /\ pc \in {"returned", "done"}) => worker # "send"

\* C18: NeverRespondWithGoContextHandler passes the background root context
\* to LockResponse; that context never fires, so the handler never leaves
\* onlyReturnWhenContextCancelled and never writes a response, even when the
\* client disconnects and the request context is canceled.
C18_NeverReturns ==
    route = RtNeverRespond =>
        /\ err[Background] = Nil
        /\ response = NoResponse
        /\ pc \in {"accepted", "next", "lock"}

\* The client disconnected, the request context and the middleware's context
\* are canceled, time has passed, and the handler is still blocked.
C18_Witness ==
    /\ route = RtNeverRespond
    /\ pc = "lock"
    /\ disconnected
    /\ err[ReqCtx] = Canceled
    /\ err[MwCtx] = Canceled
    /\ now > LockTimeout

C20_TaskTerminates ==
    /\ [][task' # task =>
            /\ task \notin TaskTerminal
            /\ task = "none" => task' = "start"
            /\ task = "start" => task' \in {"Failed", "select"}
            /\ task = "select" =>
                 \/ task' = "CanceledVoluntarily" /\ err[TaskCtx] # Nil
                 \/ task' = "Completed" /\ now >= wake["task"]]_vars
    /\ [](task = "select" => now <= wake["task"])
    /\ (task # "none") ~> [](task \in TaskTerminal)

\* The task of FireAndForgetHandler waited its 2 minutes on a live context
\* and completed.
C20_Witness ==
    /\ route = RtFireAndForget
    /\ ~disconnected
    /\ task = "Completed"
    /\ err[TaskCtx] = Nil
    /\ now = wake["task"]
    /\ wake["task"] = TaskTime

====
